---- MODULE Spec2Model ----
(***************************************************************************)
(* Model of the DNS manifest asset of pkg/asset/manifests/dns.go.          *)
(*                                                                         *)
(* The asset, a DNS struct, holds one field, FileList.  Generate reads the *)
(* install config and the cluster ID, dispatches on the platform name,     *)
(* resolves the public and the private zone of the DNS config (calling     *)
(* the platform's lookup functions where the code does), marshals the      *)
(* config and stores it as the asset's only file.                          *)
(*                                                                         *)
(* Strings are TLA+ strings; fmt.Sprintf, errors.Wrap and                  *)
(* strings.TrimPrefix are computed on them character by character.         *)
(* The external calls (session and client construction, zone lookups) are  *)
(* nondeterministic: each either fails with an error or returns a value.   *)
(***************************************************************************)
EXTENDS Integers, Sequences, FiniteSets, TLC

VARIABLES
    installConfig,  \* the InstallConfig dependency handed to Generate
    clusterID,      \* the ClusterID dependency handed to Generate
    FileList,       \* DNS.FileList, the asset's only field
    config,         \* Generate's local `config` as it stood at the last return
    err,            \* the error the last call of Generate returned
    calls,          \* the external calls the last call of Generate issued, in order
    returned        \* whether Generate has returned at least once

vars == <<installConfig, clusterID, FileList, config, err, calls, returned>>

----------------------------------------------------------------------------
(* Bounds of the model: how many distinct zone IDs, GCP projects and       *)
(* infrastructure IDs the inputs are drawn from.                           *)

NumZones == 2
NumProjects == 2
NumInfra == 2

ZoneIDs == {"z" \o ToString(i) : i \in 1..NumZones}
Projects == {"p" \o ToString(i) : i \in 1..NumProjects}
InfraIDs == {"c" \o ToString(i) : i \in 1..NumInfra}

\* The errors an external call may fail with.
ExtErrs == {"access denied"}

----------------------------------------------------------------------------
(* Names and constants of the types packages.                              *)

AlibabaCloudName == "alibabacloud"
AWSName == "aws"
AzureName == "azure"
BaremetalName == "baremetal"
GCPName == "gcp"
IBMCloudName == "ibmcloud"
LibvirtName == "libvirt"
NoneName == "none"
NutanixName == "nutanix"
OpenstackName == "openstack"
OvirtName == "ovirt"
PowerVSName == "powervs"
VSphereName == "vsphere"

\* Platform.Name() of a config that sets no platform, and a name the switch
\* does not know.
UnknownNames == {"", "equinix"}

ExternalPublishingStrategy == "External"
InternalPublishingStrategy == "Internal"
PublishingStrategies == {ExternalPublishingStrategy, InternalPublishingStrategy}

StackCloud == "AzureStackCloud"
PublicCloud == "AzurePublicCloud"

\* The platforms of the case that resolves no zone at all.
NoDNSPlatforms_MissingNutanix ==
    {LibvirtName, OpenstackName, BaremetalName, NoneName, VSphereName, OvirtName}

NoDNSPlatforms ==
    {LibvirtName, OpenstackName, BaremetalName, NoneName, VSphereName,
     OvirtName, NutanixName}

\* The platforms whose case resolves zones.
DNSPlatforms ==
    {AlibabaCloudName, AWSName, AzureName, GCPName, IBMCloudName, PowerVSName}

----------------------------------------------------------------------------
(* Values.                                                                 *)

\* A nil error.
NoErr == "<nil>"

\* errors.New("invalid Platform")
ErrInvalidPlatform == "invalid Platform"

\* errors.Wrap(err, msg) and errors.Wrapf: the message, then the cause.
Wrap(e, msg) == msg \o ": " \o e

\* fmt's %q of a string without special characters.
Quote(s) == "\"" \o s \o "\""

\* strings.TrimPrefix(s, prefix)
TrimPrefix(s, prefix) ==
    IF Len(s) >= Len(prefix) /\ SubSeq(s, 1, Len(prefix)) = prefix
    THEN SubSeq(s, Len(prefix) + 1, Len(s))
    ELSE s

\* A nil *configv1.DNSZone.
NilZone == [nil |-> TRUE, ID |-> "", Tags |-> {}]

\* &configv1.DNSZone{ID: id, Tags: tags}; a map is a set of <<key, value>>,
\* the nil map the empty set.
DNSZone(id, tags) == [nil |-> FALSE, ID |-> id, Tags |-> tags]

\* m[k] = v on a map.
MapPut(m, k, v) == {p \in m : p[1] # k} \cup {<<k, v>>}

\* A nil *gcptypes.DNSZone (no override given).
NilOverride == [nil |-> TRUE, ID |-> "", ProjectID |-> ""]

\* &gcptypes.DNSZone{ID: id, ProjectID: project}
Override(id, project) == [nil |-> FALSE, ID |-> id, ProjectID |-> project]

Overrides ==
    {NilOverride} \cup
    {Override(id, p) : id \in {""} \cup ZoneIDs, p \in {""} \cup Projects}

\* InstallConfig.Config.ClusterDomain(): <cluster name>.<base domain>
ClusterDomain(ic) == ic.ClusterName \o "." \o ic.BaseDomain

\* The outcome of an external call: an error, or a value.
Failed(e) == [err |-> e, val |-> ""]
Returns(v) == [err |-> NoErr, val |-> v]
Outcomes(vals) == {Failed(e) : e \in ExtErrs} \cup {Returns(v) : v \in vals}

\* One entry of the log of external calls: the call, whether it succeeded
\* and the value it returned.
Call(op, outcome) ==
    [op |-> op, ok |-> outcome.err = NoErr, val |-> outcome.val]

----------------------------------------------------------------------------
(* What a case of the switch leaves behind: the error it returns (NoErr    *)
(* when it falls through to the marshalling), the two zones of config.Spec *)
(* at that point, and the external calls it issued.                        *)

Failure(e, cs) ==
    [err |-> e, PublicZone |-> NilZone, PrivateZone |-> NilZone, calls |-> cs]

Success(pub, priv, cs) ==
    [err |-> NoErr, PublicZone |-> pub, PrivateZone |-> priv, calls |-> cs]

\* The result of resolving one zone: an error, the zone, the calls issued.
Resolved(e, zone, cs) == [err |-> e, zone |-> zone, calls |-> cs]

----------------------------------------------------------------------------
(* case alibabacloudtypes.Name                                             *)

GenerateAlibabaCloud(ic) ==
    LET pub == IF ic.Publish = ExternalPublishingStrategy
               THEN DNSZone(ic.BaseDomain, {<<"type", "public">>})
               ELSE NilZone
        \* the private zone is fetched by its pre-determined name
        priv == DNSZone(ClusterDomain(ic), {<<"type", "private">>})
    IN  Success(pub, priv, <<>>)

----------------------------------------------------------------------------
(* case awstypes.Name                                                      *)

\* A public zone whatever the publishing strategy.
AWSPublicZone_AlwaysLookup(ic, sess, zone) ==
    IF sess.err # NoErr
    THEN Resolved(Wrap(sess.err, "failed to initialize session"), NilZone,
                  <<Call("aws.Session", sess)>>)
    ELSE IF zone.err # NoErr
    THEN Resolved(Wrap(zone.err, "getting public zone for " \o Quote(ic.BaseDomain)),
                  NilZone,
                  <<Call("aws.Session", sess), Call("aws.GetPublicZone", zone)>>)
    ELSE Resolved(NoErr, DNSZone(TrimPrefix(zone.val, "/hostedzone/"), {}),
                  <<Call("aws.Session", sess), Call("aws.GetPublicZone", zone)>>)

\* The public zone: sess is the outcome of installConfig.AWS.Session, zone
\* that of icaws.GetPublicZone (the hosted zone's Id).
AWSPublicZone(ic, sess, zone) ==
    IF ic.Publish = ExternalPublishingStrategy
    THEN IF sess.err # NoErr
         THEN Resolved(Wrap(sess.err, "failed to initialize session"), NilZone,
                       <<Call("aws.Session", sess)>>)
         ELSE IF zone.err # NoErr
         THEN Resolved(Wrap(zone.err,
                            "getting public zone for " \o Quote(ic.BaseDomain)),
                       NilZone,
                       <<Call("aws.Session", sess), Call("aws.GetPublicZone", zone)>>)
         ELSE Resolved(NoErr, DNSZone(TrimPrefix(zone.val, "/hostedzone/"), {}),
                       <<Call("aws.Session", sess), Call("aws.GetPublicZone", zone)>>)
    ELSE Resolved(NoErr, NilZone, <<>>)

\* The Name tag is built from the wrong suffix.
AWSPrivateZone_WrongNameTag(ic, cid) ==
    IF ic.AWS.HostedZone = ""
    THEN DNSZone("",
             MapPut(MapPut({}, "kubernetes.io/cluster/" \o cid.InfraID, "owned"),
                    "Name", cid.InfraID \o "-private-zone"))
    ELSE DNSZone(ic.AWS.HostedZone, {})

\* The tags are set next to the operator's hosted zone too.
AWSPrivateZone_TagsWithID(ic, cid) ==
    DNSZone(ic.AWS.HostedZone,
        MapPut(MapPut({}, "kubernetes.io/cluster/" \o cid.InfraID, "owned"),
               "Name", cid.InfraID \o "-int"))

\* The private zone: the operator's hosted zone, or the cluster's tags.
AWSPrivateZone(ic, cid) ==
    IF ic.AWS.HostedZone = ""
    THEN DNSZone("",
             MapPut(MapPut({}, "kubernetes.io/cluster/" \o cid.InfraID, "owned"),
                    "Name", cid.InfraID \o "-int"))
    ELSE DNSZone(ic.AWS.HostedZone, {})

GenerateAWS(ic, cid, sess, zone) ==
    LET pub == AWSPublicZone(ic, sess, zone)
    IN  IF pub.err # NoErr
        THEN Failure(pub.err, pub.calls)
        ELSE Success(pub.zone, AWSPrivateZone(ic, cid), pub.calls)

----------------------------------------------------------------------------
(* case azuretypes.Name                                                    *)

\* dnsConfig.GetDNSZoneID(resource group, zone name): an ID computed from
\* its arguments, without a call.
GetDNSZoneID(rgName, zoneName) ==
    "/resourceGroups/" \o rgName \o "/dnszones/" \o zoneName

\* dnsConfig.GetPrivateDNSZoneID(resource group, zone name)
GetPrivateDNSZoneID(rgName, zoneName) ==
    "/resourceGroups/" \o rgName \o "/privateDnsZones/" \o zoneName

\* installConfig.Config.Azure.ClusterResourceGroupName(infraID)
ClusterResourceGroupName(ic, infraID) == infraID \o "-rg"

\* dnsConfig is the outcome of installConfig.Azure.DNSConfig().
GenerateAzure(ic, cid, dnsConfig) ==
    IF dnsConfig.err # NoErr
    THEN Failure(dnsConfig.err, <<Call("azure.DNSConfig", dnsConfig)>>)
    ELSE LET pub == IF ic.Publish = ExternalPublishingStrategy
                    THEN DNSZone(GetDNSZoneID(ic.Azure.BaseDomainResourceGroupName,
                                              ic.BaseDomain), {})
                    ELSE NilZone
             priv == IF ic.Azure.CloudName # StackCloud
                     THEN DNSZone(GetPrivateDNSZoneID(
                                      ClusterResourceGroupName(ic, cid.InfraID),
                                      ClusterDomain(ic)), {})
                     ELSE NilZone
         IN  Success(pub, priv, <<Call("azure.DNSConfig", dnsConfig)>>)

----------------------------------------------------------------------------
(* case gcptypes.Name                                                      *)

combineGCPZoneInfo(project, zoneName) ==
    "project/" \o project \o "/managedZones/" \o zoneName

\* The zone ID of a provided zone: composed with the zone's project when
\* that project is given and is not the install's own.
GCPZoneID(ic, override) ==
    IF override.ProjectID # "" /\ ic.GCP.ProjectID # override.ProjectID
    THEN combineGCPZoneInfo(override.ProjectID, override.ID)
    ELSE override.ID

\* "Set the public zone": zone is the outcome of icgcp.GetPublicZone (the
\* managed zone's Name).
GCPPublicZone(ic, zone) ==
    IF ic.Publish # ExternalPublishingStrategy
    THEN Resolved(NoErr, NilZone, <<>>)
    ELSE IF ~ic.GCP.PublicDNSZone.nil /\ ic.GCP.PublicDNSZone.ID # ""
    THEN Resolved(NoErr, DNSZone(GCPZoneID(ic, ic.GCP.PublicDNSZone), {}), <<>>)
    ELSE IF zone.err # NoErr
    THEN Resolved(Wrap(zone.err,
                       "failed to get public zone for " \o Quote(ic.BaseDomain)),
                  NilZone, <<Call("gcp.GetPublicZone", zone)>>)
    ELSE Resolved(NoErr, DNSZone(zone.val, {}), <<Call("gcp.GetPublicZone", zone)>>)

\* "Set the private zone", applied to the two zones of config.Spec as the
\* public-zone switch left them: the provided zone is assigned to
\* config.Spec.PublicZone, the installer-created one to config.Spec.PrivateZone.
GCPSetPrivateZone(ic, cid, pub, priv) ==
    IF ~ic.GCP.PrivateDNSZone.nil /\ ic.GCP.PrivateDNSZone.ID # ""
    THEN [PublicZone |-> DNSZone(GCPZoneID(ic, ic.GCP.PrivateDNSZone), {}),
          PrivateZone |-> priv]
    ELSE [PublicZone |-> pub,
          PrivateZone |-> DNSZone(cid.InfraID \o "-private-zone", {})]

GenerateGCP(ic, cid, zone) ==
    LET pub == GCPPublicZone(ic, zone)
    IN  IF pub.err # NoErr
        THEN Failure(pub.err, pub.calls)
        ELSE LET spec == GCPSetPrivateZone(ic, cid, pub.zone, NilZone)
             IN  Success(spec.PublicZone, spec.PrivateZone, pub.calls)

----------------------------------------------------------------------------
(* case ibmcloudtypes.Name and case powervstypes.Name                      *)

\* A failed lookup is not returned: generation goes on with the empty ID.
GenerateIBMCloud_IgnoreLookupErr(ic, client, zoneID) ==
    IF client.err # NoErr
    THEN Failure(Wrap(client.err, "failed to get IBM Cloud client"),
                 <<Call("ibmcloud.NewClient", client)>>)
    ELSE Success(IF ic.Publish = ExternalPublishingStrategy
                 THEN DNSZone(zoneID.val, {}) ELSE NilZone,
                 DNSZone(zoneID.val, {}),
                 <<Call("ibmcloud.NewClient", client),
                   Call("ibmcloud.GetDNSZoneIDByName", zoneID)>>)

\* client is the outcome of icibmcloud.NewClient, zoneID that of
\* client.GetDNSZoneIDByName.
GenerateIBMCloud(ic, client, zoneID) ==
    IF client.err # NoErr
    THEN Failure(Wrap(client.err, "failed to get IBM Cloud client"),
                 <<Call("ibmcloud.NewClient", client)>>)
    ELSE IF zoneID.err # NoErr
    THEN Failure(Wrap(zoneID.err, "failed to get DNS zone ID"),
                 <<Call("ibmcloud.NewClient", client),
                   Call("ibmcloud.GetDNSZoneIDByName", zoneID)>>)
    ELSE Success(IF ic.Publish = ExternalPublishingStrategy
                 THEN DNSZone(zoneID.val, {}) ELSE NilZone,
                 DNSZone(zoneID.val, {}),
                 <<Call("ibmcloud.NewClient", client),
                   Call("ibmcloud.GetDNSZoneIDByName", zoneID)>>)

\* The public zone is set whatever the publishing strategy.
GeneratePowerVS_AlwaysPublic(ic, client, zoneID) ==
    IF client.err # NoErr
    THEN Failure(Wrap(client.err, "failed to get IBM PowerVS client"),
                 <<Call("powervs.NewClient", client)>>)
    ELSE IF zoneID.err # NoErr
    THEN Failure(Wrap(zoneID.err, "failed to get DNS zone ID"),
                 <<Call("powervs.NewClient", client),
                   Call("powervs.GetDNSZoneIDByName", zoneID)>>)
    ELSE Success(DNSZone(zoneID.val, {}),
                 DNSZone(zoneID.val, {}),
                 <<Call("powervs.NewClient", client),
                   Call("powervs.GetDNSZoneIDByName", zoneID)>>)

GeneratePowerVS(ic, client, zoneID) ==
    IF client.err # NoErr
    THEN Failure(Wrap(client.err, "failed to get IBM PowerVS client"),
                 <<Call("powervs.NewClient", client)>>)
    ELSE IF zoneID.err # NoErr
    THEN Failure(Wrap(zoneID.err, "failed to get DNS zone ID"),
                 <<Call("powervs.NewClient", client),
                   Call("powervs.GetDNSZoneIDByName", zoneID)>>)
    ELSE Success(IF ic.Publish = ExternalPublishingStrategy
                 THEN DNSZone(zoneID.val, {}) ELSE NilZone,
                 DNSZone(zoneID.val, {}),
                 <<Call("powervs.NewClient", client),
                   Call("powervs.GetDNSZoneIDByName", zoneID)>>)

----------------------------------------------------------------------------
(* The case of the platforms without DNS, and the default case.            *)

\* The case sets the private zone as a cloud platform's case would.
GenerateNoDNS_PrivateZone(ic) ==
    Success(NilZone, DNSZone(ClusterDomain(ic), {}), <<>>)

GenerateNoDNS(ic) == Success(NilZone, NilZone, <<>>)

GenerateInvalid(ic) == Failure(ErrInvalidPlatform, <<>>)

----------------------------------------------------------------------------
(* The config Generate builds, its marshalling and the asset's file.       *)

\* The configv1.DNS that Generate constructs, with the zones of its Spec.
DNS(ic, pub, priv) ==
    [Kind |-> "DNS",
     Name |-> "cluster",
     Spec |-> [BaseDomain |-> ClusterDomain(ic),
               PublicZone |-> pub,
               PrivateZone |-> priv]]

\* The fields a zone contributes to the document: nothing when the pointer is
\* nil, else the field itself, its id unless empty and its tags unless none
\* (the fields are omitempty).
MarshalZone(field, z) ==
    IF z.nil THEN {}
    ELSE {<<field, "", "">>}
         \cup (IF z.ID # "" THEN {<<field, "id", z.ID>>} ELSE {})
         \cup {<<field \o ".tags", t[1], t[2]>> : t \in z.Tags}

\* yaml.Marshal(config): the document as its set of <<object, field, value>>.
Marshal(cfg) ==
    {<<"", "kind", cfg.Kind>>,
     <<"metadata", "name", cfg.Name>>,
     <<"spec", "baseDomain", cfg.Spec.BaseDomain>>}
    \cup MarshalZone("spec.publicZone", cfg.Spec.PublicZone)
    \cup MarshalZone("spec.privateZone", cfg.Spec.PrivateZone)

dnsCfgFilename == "manifests/cluster-dns-02-config.yml"

\* The end of Generate, after the switch: a case that returned an error has
\* returned it, with FileList as it was; otherwise the config is marshalled
\* and FileList is set to the one file holding it.
Return(r) ==
    /\ err' = r.err
    /\ calls' = r.calls
    /\ config' = DNS(installConfig, r.PublicZone, r.PrivateZone)
    /\ FileList' = IF r.err # NoErr
                   THEN FileList
                   ELSE <<[Filename |-> dnsCfgFilename, Data |-> Marshal(config')]>>
    /\ returned' = TRUE
    /\ UNCHANGED <<installConfig, clusterID>>

----------------------------------------------------------------------------
(* The inputs.                                                             *)

BaseConfig(platform, publish) ==
    [Platform |-> platform,
     Publish |-> publish,
     BaseDomain |-> "example.com",
     ClusterName |-> "dev",
     AWS |-> [HostedZone |-> ""],
     Azure |-> [CloudName |-> PublicCloud, BaseDomainResourceGroupName |-> "rg"],
     GCP |-> [ProjectID |-> "", PublicDNSZone |-> NilOverride,
              PrivateDNSZone |-> NilOverride]]

AWSConfigs ==
    {[BaseConfig(AWSName, p) EXCEPT !.AWS.HostedZone = h] :
        p \in PublishingStrategies, h \in {""} \cup ZoneIDs}

AzureConfigs ==
    {[BaseConfig(AzureName, p) EXCEPT !.Azure.CloudName = c] :
        p \in PublishingStrategies, c \in {PublicCloud, StackCloud}}

GCPConfigs ==
    {[BaseConfig(GCPName, p) EXCEPT
         !.GCP = [ProjectID |-> own, PublicDNSZone |-> pub, PrivateDNSZone |-> priv]] :
        p \in PublishingStrategies, own \in Projects,
        pub \in Overrides, priv \in Overrides}

OtherConfigs ==
    {BaseConfig(n, p) :
        n \in {AlibabaCloudName, IBMCloudName, PowerVSName, LibvirtName,
               OpenstackName, BaremetalName, NoneName, VSphereName, OvirtName,
               NutanixName} \cup UnknownNames,
        p \in PublishingStrategies}

InstallConfigs == AWSConfigs \cup AzureConfigs \cup GCPConfigs \cup OtherConfigs

\* What icaws.GetPublicZone may return as the zone's Id.
AWSZoneHandles == {"/hostedzone/" \o z : z \in ZoneIDs} \cup ZoneIDs

----------------------------------------------------------------------------
(* The state machine: a DNS asset is constructed with no files, and        *)
(* Generate is called on it with the install's dependencies, any number of *)
(* times; each call's external calls fail or succeed independently.        *)

Init ==
    /\ installConfig \in InstallConfigs
    /\ clusterID \in {[InfraID |-> i] : i \in InfraIDs}
    /\ FileList = <<>>
    /\ config = DNS(installConfig, NilZone, NilZone)
    /\ err = NoErr
    /\ calls = <<>>
    /\ returned = FALSE

GenerateOnAlibabaCloud ==
    /\ installConfig.Platform = AlibabaCloudName
    /\ Return(GenerateAlibabaCloud(installConfig))

GenerateOnAWS ==
    /\ installConfig.Platform = AWSName
    /\ \E sess \in Outcomes({"session"}), zone \in Outcomes(AWSZoneHandles) :
          Return(GenerateAWS(installConfig, clusterID, sess, zone))

GenerateOnAzure ==
    /\ installConfig.Platform = AzureName
    /\ \E dnsConfig \in Outcomes({"dnsConfig"}) :
          Return(GenerateAzure(installConfig, clusterID, dnsConfig))

GenerateOnGCP ==
    /\ installConfig.Platform = GCPName
    /\ \E zone \in Outcomes(ZoneIDs) :
          Return(GenerateGCP(installConfig, clusterID, zone))

GenerateOnIBMCloud ==
    /\ installConfig.Platform = IBMCloudName
    /\ \E client \in Outcomes({"client"}), zoneID \in Outcomes(ZoneIDs) :
          Return(GenerateIBMCloud(installConfig, client, zoneID))

GenerateOnPowerVS ==
    /\ installConfig.Platform = PowerVSName
    /\ \E client \in Outcomes({"client"}), zoneID \in Outcomes(ZoneIDs) :
          Return(GeneratePowerVS(installConfig, client, zoneID))

GenerateOnNoDNS ==
    /\ installConfig.Platform \in NoDNSPlatforms
    /\ Return(GenerateNoDNS(installConfig))

GenerateOnInvalid ==
    /\ installConfig.Platform \notin DNSPlatforms \cup NoDNSPlatforms
    /\ Return(GenerateInvalid(installConfig))

Next ==
    \/ GenerateOnAlibabaCloud
    \/ GenerateOnAWS
    \/ GenerateOnAzure
    \/ GenerateOnGCP
    \/ GenerateOnIBMCloud
    \/ GenerateOnPowerVS
    \/ GenerateOnNoDNS
    \/ GenerateOnInvalid

Spec == Init /\ [][Next]_vars

----------------------------------------------------------------------------
(* Vocabulary of the properties.                                           *)

Platform == installConfig.Platform
Publish == installConfig.Publish
InfraID == clusterID.InfraID

\* Generate has returned, and its last call returned nil.
Succeeded == returned /\ err = NoErr

PublicZone == config.Spec.PublicZone
PrivateZone == config.Spec.PrivateZone

\* The two forms of a zone reference.
ByID(id) == [nil |-> FALSE, ID |-> id, Tags |-> {}]
ByTags(tags) == [nil |-> FALSE, ID |-> "", Tags |-> tags]

\* The external calls of the last call of Generate.
Issued(op) == \E i \in DOMAIN calls : calls[i].op = op
Count(op) == Cardinality({i \in DOMAIN calls : calls[i].op = op})
SomeCallFailed == \E i \in DOMAIN calls : ~calls[i].ok

\* The value the last call's `op` returned.
ValueOf(op) == calls[CHOOSE i \in DOMAIN calls : calls[i].op = op].val

\* A GCP zone override that counts: given, with a non-empty ID.
Given(override) == ~override.nil /\ override.ID # ""

\* The zone ID an override stands for, as the specification words it.
OverrideZoneID(override) ==
    IF override.ProjectID # "" /\ override.ProjectID # installConfig.GCP.ProjectID
    THEN "project/" \o override.ProjectID \o "/managedZones/" \o override.ID
    ELSE override.ID

\* The public zone of the GCP case as its public-zone branch resolves it.
GCPPublicAsResolved ==
    IF Publish # "External" THEN PublicZone.nil
    ELSE IF Given(installConfig.GCP.PublicDNSZone)
    THEN PublicZone = ByID(OverrideZoneID(installConfig.GCP.PublicDNSZone))
    ELSE Issued("gcp.GetPublicZone")
         /\ PublicZone = ByID(ValueOf("gcp.GetPublicZone"))

\* The platforms the switch enumerates.
EnumeratedPlatforms ==
    {"alibabacloud", "aws", "azure", "gcp", "ibmcloud", "powervs", "libvirt",
     "openstack", "baremetal", "none", "vsphere", "ovirt", "nutanix"}

\* A zone reference has exactly one of its two forms populated.
ExactlyOneForm(z) == (z.ID # "") # (z.Tags # {})

----------------------------------------------------------------------------
(* The properties.                                                         *)

\* C1: whenever Generate returns successfully, the DNS config has a public
\* zone only if publish is External.
C1_PublicZoneOnlyIfExternal ==
    Succeeded => (~PublicZone.nil => Publish = "External")

\* C2: on GCP the private zone is resolved independently of the public zone:
\* with a private-zone override of non-empty ID the private zone is byID of
\* that ID (composed with the override's project when it is non-empty and not
\* the install's own) and the public zone is as the public-zone branch
\* resolved it; otherwise the private zone is byID("<infraID>-private-zone");
\* no lookup is made for the private zone.
C2_GCPPrivateZoneIndependent ==
    (Succeeded /\ Platform = "gcp") =>
        /\ GCPPublicAsResolved
        /\ PrivateZone =
              IF Given(installConfig.GCP.PrivateDNSZone)
              THEN ByID(OverrideZoneID(installConfig.GCP.PrivateDNSZone))
              ELSE ByID(InfraID \o "-private-zone")
        /\ \A i \in DOMAIN calls : calls[i].op = "gcp.GetPublicZone"
        /\ Len(calls) <= 1

C4_FailedCallLeavesFileList ==
    [][(\E i \in DOMAIN calls' : ~calls'[i].ok) =>
          (err' # NoErr /\ FileList' = FileList)]_vars

\* C4's case: a lookup failed in a call made after an earlier one had
\* produced a file, and the file is still there.
C4_Witness ==
    /\ returned
    /\ SomeCallFailed
    /\ err # NoErr
    /\ FileList # <<>>

\* C5: a platform that is not enumerated makes Generate return the
\* invalid-platform error, with FileList unchanged and no external call;
\* an enumerated platform never yields that error.
C5_InvalidPlatformOnlyIfUnknown ==
    [][IF Platform \notin EnumeratedPlatforms
       THEN err' = "invalid Platform" /\ calls' = <<>> /\ FileList' = FileList
       ELSE err' # "invalid Platform"]_vars

\* C5's case: Generate has returned on a platform name the switch does not
\* enumerate.
C5_Witness ==
    /\ returned
    /\ Platform \notin EnumeratedPlatforms
    /\ err = "invalid Platform"
    /\ FileList = <<>>

\* C6: on every no-DNS platform, under either publishing strategy, Generate
\* succeeds with a config that has neither zone (nor has the file written),
\* and issues no external call.
C6_NoDNSPlatformsEmpty ==
    (returned /\ Platform \in {"libvirt", "openstack", "baremetal", "none",
                               "vsphere", "ovirt", "nutanix"}) =>
        /\ err = NoErr
        /\ PublicZone.nil /\ PrivateZone.nil
        /\ calls = <<>>
        /\ Len(FileList) = 1
        /\ \A e \in FileList[1].Data : e[1] \in {"", "metadata", "spec"}

\* C6's case: Generate has returned on nutanix with external publishing.
C6_Witness ==
    /\ returned
    /\ Platform = "nutanix"
    /\ Publish = "External"
    /\ Len(FileList) = 1

\* C7: on GCP with publish External and a public-zone override of non-empty
\* ID, the resolved public zone is byID of the override's zone ID (composed
\* exactly when the override's project is non-empty and not the install's
\* own) and no search lookup is issued; the search lookup is issued only
\* when publish is External and no such override is given.
C7_GCPPublicOverride ==
    (returned /\ Platform = "gcp") =>
        /\ (Publish = "External" /\ Given(installConfig.GCP.PublicDNSZone)) =>
              /\ err = NoErr
              /\ PublicZone = ByID(OverrideZoneID(installConfig.GCP.PublicDNSZone))
              /\ ~Issued("gcp.GetPublicZone")
        /\ Issued("gcp.GetPublicZone") =>
              (Publish = "External" /\ ~Given(installConfig.GCP.PublicDNSZone))

\* C8, as claimed: on aws with publish Internal, Generate initializes no
\* session, issues no public-zone lookup, does not fail and yields no public
\* zone; a public-zone lookup is issued if and only if publish is External.
C8_AWSLookupIffExternal ==
    (returned /\ Platform = "aws") =>
        /\ Publish = "Internal" =>
              (calls = <<>> /\ err = NoErr /\ PublicZone.nil)
        /\ Issued("aws.GetPublicZone") <=> Publish = "External"

\* C8, as amended: on aws with publish Internal, Generate initializes no
\* session, issues no public-zone lookup, does not fail and yields no public
\* zone; a session is initialized if and only if publish is External, and
\* the public-zone lookup is issued if and only if publish is External and
\* the session was initialized successfully.
C8_AWSLookupIffExternalAndSession ==
    (returned /\ Platform = "aws") =>
        /\ Publish = "Internal" =>
              (calls = <<>> /\ err = NoErr /\ PublicZone.nil)
        /\ Issued("aws.Session") <=> Publish = "External"
        /\ Issued("aws.GetPublicZone") <=>
              (Publish = "External" /\ calls[1] = [op |-> "aws.Session",
                                                   ok |-> TRUE,
                                                   val |-> "session"])

\* C8's case: Generate has returned on aws with publish Internal.
C8_Witness ==
    /\ returned
    /\ Platform = "aws"
    /\ Publish = "Internal"
    /\ Len(FileList) = 1

\* C9: on aws, under either publishing strategy, the private zone of a
\* successful result is byID(hostedZone) when the operator's hosted zone is
\* non-empty, and otherwise byTags of exactly the two tags
\* kubernetes.io/cluster/<infraID> = owned and Name = <infraID>-int; no
\* lookup is made for the private zone.
C9_AWSPrivateZone ==
    (Succeeded /\ Platform = "aws") =>
        /\ PrivateZone =
              IF installConfig.AWS.HostedZone # ""
              THEN ByID(installConfig.AWS.HostedZone)
              ELSE ByTags({<<"kubernetes.io/cluster/" \o InfraID, "owned">>,
                           <<"Name", InfraID \o "-int">>})
        /\ installConfig.AWS.HostedZone = "" => Cardinality(PrivateZone.Tags) = 2
        /\ calls = IF Publish = "External"
                   THEN <<[op |-> "aws.Session", ok |-> TRUE, val |-> "session"],
                          [op |-> "aws.GetPublicZone", ok |-> TRUE,
                           val |-> ValueOf("aws.GetPublicZone")]>>
                   ELSE <<>>

\* C9's case: a successful Generate on aws without a hosted zone of the
\* operator's, publishing externally.
C9_Witness ==
    /\ Succeeded
    /\ Platform = "aws"
    /\ Publish = "External"
    /\ installConfig.AWS.HostedZone = ""
    /\ PrivateZone.Tags # {}

\* What C10 says of a successful result: the private zone is byID of the
\* resolved ID, the public zone the same under External and absent otherwise.
C10_Zones(lookup) ==
    err = NoErr =>
        /\ PrivateZone = ByID(ValueOf(lookup))
        /\ PublicZone = IF Publish = "External"
                        THEN ByID(ValueOf(lookup)) ELSE NilZone

\* C10, as claimed: on ibmcloud and powervs Generate issues exactly one
\* zone-ID lookup per call under either publishing strategy, a failure of
\* which aborts generation; on success the private zone is byID of the
\* resolved ID, and the public zone is byID of the same ID when publish is
\* External and absent otherwise.
C10_ExactlyOneLookup ==
    /\ (returned /\ Platform = "ibmcloud") =>
          /\ Count("ibmcloud.GetDNSZoneIDByName") = 1
          /\ SomeCallFailed => err # NoErr
          /\ C10_Zones("ibmcloud.GetDNSZoneIDByName")
    /\ (returned /\ Platform = "powervs") =>
          /\ Count("powervs.GetDNSZoneIDByName") = 1
          /\ SomeCallFailed => err # NoErr
          /\ C10_Zones("powervs.GetDNSZoneIDByName")

\* C10, as amended: on ibmcloud and powervs Generate issues, under either
\* publishing strategy, exactly one zone-ID lookup per call when the client
\* is constructed and none when its construction fails; a failure of either
\* aborts generation; on success the zones are as claimed.
C10_OneLookupPerClient ==
    /\ (returned /\ Platform = "ibmcloud") =>
          /\ Count("ibmcloud.NewClient") = 1 /\ calls[1].op = "ibmcloud.NewClient"
          /\ Count("ibmcloud.GetDNSZoneIDByName") = IF calls[1].ok THEN 1 ELSE 0
          /\ SomeCallFailed => err # NoErr
          /\ C10_Zones("ibmcloud.GetDNSZoneIDByName")
    /\ (returned /\ Platform = "powervs") =>
          /\ Count("powervs.NewClient") = 1 /\ calls[1].op = "powervs.NewClient"
          /\ Count("powervs.GetDNSZoneIDByName") = IF calls[1].ok THEN 1 ELSE 0
          /\ SomeCallFailed => err # NoErr
          /\ C10_Zones("powervs.GetDNSZoneIDByName")

\* C10's case: a successful Generate on powervs with publish Internal, after
\* one lookup.
C10_Witness ==
    /\ Succeeded
    /\ Platform = "powervs"
    /\ Publish = "Internal"
    /\ Count("powervs.GetDNSZoneIDByName") = 1
    /\ ~PrivateZone.nil

====
